---- MODULE Spec2Model ----
(***************************************************************************)
(* SICAL II screenshot monitor: the ingestion controller of src/src/       *)
(* monitor.py over the SQLite ledger of src/src/database.py and the        *)
(* extraction entry points of src/src/ocr_processor.py.                    *)
(*                                                                         *)
(* The controller is one process with two threads: the main thread, which  *)
(* drains the backlog (process_existing_files) and then sleeps until       *)
(* Ctrl+C, and the observer thread, which runs ScreenshotHandler.on_created*)
(* for one event at a time.  Every ledger write is its own SQLite          *)
(* transaction (each method opens a connection and commits), so a step of  *)
(* the model is one such call.                                             *)
(***************************************************************************)
EXTENDS Integers, Sequences, FiniteSets, TLC

\* ------------------------------------------------------------ bounds
\* Injected faults per behaviour: exceptions of the store, the move or the
\* extraction, process kills, and stop signals that interrupt the backlog
\* drain, taken together.
MaxFaults == 2
\* Longest recognised text, in characters.
MaxTextLen == 2
\* Rows per table when the store is driven directly.
MaxRows == 2
\* Longest string handed to clean_number, beside the named examples.
MaxInputLen == 5
\* Lines of a recognised text whose fields are resolved.
MaxLines == 2

\* ------------------------------------------------------------ values
\* Python's None, as returned by extract_data and held by an idle handler.
None == [none |-> TRUE]
NoFile == [stem |-> "", suffix |-> ""]

\* A SourceImage is identified by its file name: stem plus suffix.
Files ==
    { [stem |-> "a", suffix |-> ".png"],
      [stem |-> "b", suffix |-> ".bmp"],
      [stem |-> "c", suffix |-> ".txt"] }

\* str.lower() on the suffixes that occur.
Lower(s) ==
    CASE s = ".BMP" -> ".bmp"
      [] s = ".PNG" -> ".png"
      [] s = ".JPG" -> ".jpg"
      [] OTHER -> s

\* on_created's extension filter.
LiveSuffixes == {".png", ".jpg", ".jpeg", ".bmp", ".tiff"}
AcceptedLive(f) == Lower(f.suffix) \in LiveSuffixes

\* process_existing_files' three globs, in the order they are concatenated.
GlobPatterns == <<".png", ".jpg", ".jpeg">>

\* The ten tracked fields of the record.
FieldNames ==
    { "year", "concept", "concept_description",
      "saldo_inicial_deudor", "saldo_inicial_acreedor",
      "total_haber", "total_debe", "propuestas_mp",
      "saldo_pendiente_acreedor", "saldo_pendiente_deudor" }

\* ------------------------------------------------- recognition inputs
\* What pytesseract.image_to_string can hand back for one combination: a
\* text, here its character count and the fields whose labelled values are
\* legible in it, or an exception.
Raise == [exc |-> "Exception"]
EmptyText == [len |-> 0, found |-> {}]
FoundChoices == { {}, {"year", "concept"} }
Texts ==
    {EmptyText} \cup
    { [len |-> n, found |-> F] : n \in 1..MaxTextLen, F \in FoundChoices }

Methods == <<"advanced", "contrast", "basic">>
tesseract_configs ==
    << "--oem 3 --psm 6 -l spa", "--oem 3 --psm 4 -l spa",
       "--oem 3 --psm 11 -l spa", "--oem 3 --psm 3 -l spa+eng" >>

MethodIx == 1..Len(Methods)
ConfigIx == 1..Len(tesseract_configs)
Combos == MethodIx \X ConfigIx

\* One image's behaviour under recognition: which preprocessing methods
\* load the image, and what each (method, config) call returns.  The inputs
\* enumerated are those where all combinations agree on a base outcome
\* except at most one.
Scenarios ==
    { [pre |-> [m \in MethodIx |-> m \notin bad],
       ocr |-> [c \in Combos |-> IF c = k THEN o ELSE b]] :
         bad \in SUBSET MethodIx, k \in Combos,
         o \in Texts \cup {Raise}, b \in Texts \cup {Raise} }

AllEmptyText(s) ==
    \A c \in Combos : s.pre[c[1]] /\ s.ocr[c] = EmptyText

\* ------------------------------------------------------- extract_text
\* extract_text with ">=" for ">" in "if len(text) > best_length": the
\* latest of several equally long texts would win.
RECURSIVE ScanConfigsLatest(_, _, _, _)
ScanConfigsLatest(s, m, c, best) ==
    IF c > Len(tesseract_configs) THEN best
    ELSE LET got == s.ocr[<<m, c>>] IN
         IF got = Raise THEN best
         ELSE ScanConfigsLatest(s, m, c + 1,
                                IF got.len >= best.len THEN got ELSE best)

\* The inner loop over tesseract_configs for one preprocessed image.  An
\* exception of image_to_string leaves the loop: the except clause encloses
\* the whole loop body of the method.
RECURSIVE ScanConfigs(_, _, _, _)
ScanConfigs(s, m, c, best) ==
    IF c > Len(tesseract_configs) THEN best
    ELSE LET got == s.ocr[<<m, c>>] IN
         IF got = Raise THEN best
         ELSE ScanConfigs(s, m, c + 1,
                          IF got.len > best.len THEN got ELSE best)

\* The outer loop over the preprocessing methods; a method whose
\* preprocess_image raises is skipped.
RECURSIVE ScanMethods(_, _, _)
ScanMethods(s, m, best) ==
    IF m > Len(Methods) THEN best
    ELSE ScanMethods(s, m + 1,
                     IF s.pre[m] THEN ScanConfigs(s, m, 1, best) ELSE best)

ExtractText(s) == ScanMethods(s, 1, EmptyText)

\* The combinations on which image_to_string is called, in the same two
\* loops: the configs of a method up to and including the first that raises,
\* for the methods whose preprocess_image returns.
RECURSIVE CalledConfigs(_, _, _)
CalledConfigs(s, m, c) ==
    IF c > Len(tesseract_configs) THEN {}
    ELSE {<<m, c>>} \cup
         (IF s.ocr[<<m, c>>] = Raise THEN {} ELSE CalledConfigs(s, m, c + 1))

CalledCombos(s) ==
    UNION { IF s.pre[m] THEN CalledConfigs(s, m, 1) ELSE {} : m \in MethodIx }

\* ------------------------------------------------------- extract_data
\* The fields the pattern cascade resolves from the chosen text.
ResolveFields(txt) == txt.found

\* extract_data without its "if not text" guard.
ExtractDataUnguarded(txt, f) ==
    [image_file |-> f, found |-> ResolveFields(txt)]

\* "if not text: return None"; otherwise the data dict is built and
\* returned whatever the number of fields found.
ExtractData(txt, f) ==
    IF txt.len = 0 THEN None
    ELSE [image_file |-> f, found |-> ResolveFields(txt)]

\* What one call of extract_data can see: the chosen text, and whether
\* every combination returned empty text.
ExtractOutcomes ==
    { [text |-> ExtractText(s), blank |-> AllEmptyText(s)] : s \in Scenarios }

\* ------------------------------------------------------- clean_number
\* Strings are sequences of one-character strings.
Digits == {"0", "1", "2", "3", "4", "5", "6", "7", "8", "9"}

\* The character class [\d.,-] of the re.sub.
Kept == Digits \cup {".", ",", "-"}

Whitespace == {" "}

\* The characters the enumerated inputs are made of.
Alphabet == {"0", "1", ".", ",", "-", "x"}

Strs(n) == UNION { [1..k -> Alphabet] : k \in 0..n }

Nines(n) == [i \in 1..n |-> "9"]

\* 1e15 and 1e15 + 1, written out.
CeilingText == << "1" >> \o [i \in 1..15 |-> "0"]
AboveCeilingText == << "1" >> \o [i \in 1..14 |-> "0"] \o << "1" >>

Examples ==
    { << "2", ".", "1", "3", "1", ".", "7", "9", "3", ",", "2", "0" >>,
      << "1", ",", "5" >>,
      << " ", "1", ",", "5", " " >>,
      << "1", "2", ".", "3", "4", "5" >>,
      << ".", "-", "1", "2" >>,
      << "a", "b", "c" >>,
      Nines(20),
      CeilingText,
      AboveCeilingText,
      CeilingText \o << ".", "0", "1" >>,
      CeilingText \o << ".", "0", "7" >>,
      << "-" >> \o AboveCeilingText }

NumberInputs == Strs(MaxInputLen) \cup Examples

\* str.strip()
RECURSIVE LStrip(_)
LStrip(s) ==
    IF s # << >> /\ Head(s) \in Whitespace THEN LStrip(Tail(s)) ELSE s

RECURSIVE RStrip(_)
RStrip(s) ==
    IF s # << >> /\ s[Len(s)] \in Whitespace
    THEN RStrip(SubSeq(s, 1, Len(s) - 1)) ELSE s

Strip(s) == RStrip(LStrip(s))

\* re.sub(r'[^\d.,-]', '', text)
Residue(s) == SelectSeq(s, LAMBDA c : c \in Kept)

\* text.count(c)
Count(s, c) == Len(SelectSeq(s, LAMBDA x : x = c))

\* text.replace(c, '')
Remove(s, c) == SelectSeq(s, LAMBDA x : x # c)

\* text.replace(c, d)
Replace(s, c, d) == [i \in 1..Len(s) |-> IF s[i] = c THEN d ELSE s[i]]

\* text.split('.')[0] and [1] of a text with one dot.
DotAt(s) == CHOOSE i \in 1..Len(s) : s[i] = "."
BeforeDot(s) == SubSeq(s, 1, DotAt(s) - 1)
AfterDot(s) == SubSeq(s, DotAt(s) + 1, Len(s))

\* The separator branches of clean_number.
Separators(t) ==
    LET dots == Count(t, ".")
        commas == Count(t, ",")
    IN  IF dots > 0 /\ commas > 0 THEN Replace(Remove(t, "."), ",", ".")
        ELSE IF commas = 1 /\ dots = 0 THEN Replace(t, ",", ".")
        ELSE IF dots > 1 THEN Remove(t, ".")
        ELSE IF dots = 1 /\ commas = 0
             THEN IF Len(AfterDot(t)) = 3 THEN Remove(t, ".") ELSE t
        ELSE t

RECURSIVE DropLeadingZeros(_)
DropLeadingZeros(ds) ==
    IF ds # << >> /\ Head(ds) = "0" THEN DropLeadingZeros(Tail(ds)) ELSE ds

RECURSIVE DropTrailingZeros(_)
DropTrailingZeros(ds) ==
    IF ds # << >> /\ ds[Len(ds)] = "0"
    THEN DropTrailingZeros(SubSeq(ds, 1, Len(ds) - 1)) ELSE ds

\* A number: sign, integer digits without leading zeros, fraction digits
\* without trailing zeros.  -0.0 == 0.0 in Python, so zero has no sign.
Num(neg, int, frac) ==
    LET i == DropLeadingZeros(int)
        f == DropTrailingZeros(frac)
    IN  [neg |-> neg /\ (i # << >> \/ f # << >>), int |-> i, frac |-> f]

\* 1e15 of the sanity check, as a power of ten.
CeilingExp == 15

CeilingInt == << "1" >> \o [i \in 1..CeilingExp |-> "0"]

\* Doubles next to 1e15 are 0.125 apart: a decimal up to 1e15 + 0.0625
\* (the tie goes to the even neighbour, 1e15) is read as 1e15.
HalfUlp == << "0", "6", "2", "5" >>

DigitVal(c) == CHOOSE n \in 0..9 : << "0", "1", "2", "3", "4", "5", "6", "7", "8", "9" >>[n + 1] = c

\* f <= g for two fractions given by their digits.
RECURSIVE FracLeq(_, _)
FracLeq(f, g) ==
    IF f = << >> THEN TRUE
    ELSE IF g = << >> THEN \A i \in 1..Len(f) : f[i] = "0"
    ELSE IF DigitVal(Head(f)) < DigitVal(Head(g)) THEN TRUE
    ELSE IF DigitVal(Head(f)) > DigitVal(Head(g)) THEN FALSE
    ELSE FracLeq(Tail(f), Tail(g))

\* The double nearest to a decimal, where it decides the sanity check:
\* around 1e15.  Elsewhere the decimal itself stands for its double.
ToDouble(v) ==
    IF v.int = CeilingInt /\ FracLeq(v.frac, HalfUlp)
    THEN [v EXCEPT !.frac = << >>] ELSE v

\* float(text) on a text of digits, '.' and '-': an optional sign, digits
\* with at most one point, at least one digit; ValueError (None) otherwise.
ParseFloat(t) ==
    LET neg == t # << >> /\ Head(t) = "-"
        body == IF neg THEN Tail(t) ELSE t
        ok == /\ \A i \in 1..Len(body) : body[i] \in Digits \cup {"."}
              /\ Count(body, ".") <= 1
              /\ \E i \in 1..Len(body) : body[i] \in Digits
    IN  IF ~ok THEN None
        ELSE IF Count(body, ".") = 0 THEN ToDouble(Num(neg, body, << >>))
        ELSE ToDouble(Num(neg, BeforeDot(body), AfterDot(body)))

\* abs(value) > 1e15
Exceeds(v) ==
    \/ Len(v.int) > CeilingExp + 1
    \/ Len(v.int) = CeilingExp + 1 /\ (v.int # CeilingInt \/ v.frac # << >>)

\* clean_number without the sanity check.
clean_number_unchecked(s) ==
    IF s = << >> THEN None
    ELSE LET t == Residue(Strip(s)) IN
           IF t \in { << >>, << "-" >>, << "." >>, << "," >> } THEN None
           ELSE ParseFloat(Separators(t))

clean_number(s) ==
    IF s = << >> THEN None
    ELSE LET t == Residue(Strip(s)) IN
           IF t \in { << >>, << "-" >>, << "." >>, << "," >> } THEN None
           ELSE LET value == ParseFloat(Separators(t)) IN
                  IF value = None THEN None
                  ELSE IF Exceeds(value) THEN None
                  ELSE value

\* The separator branches of the two other processors: no branch for a
\* single dot.
SeparatorsNoSingleDot(t) ==
    LET dots == Count(t, ".")
        commas == Count(t, ",")
    IN  IF dots > 0 /\ commas > 0 THEN Replace(Remove(t, "."), ",", ".")
        ELSE IF commas = 1 /\ dots = 0 THEN Replace(t, ",", ".")
        ELSE IF dots > 1 THEN Remove(t, ".")
        ELSE t

\* SicalOCRProcessorEnhanced.clean_number: float(text) is returned as it is.
clean_number_enhanced(s) ==
    IF s = << >> THEN None
    ELSE LET t == Residue(Strip(s)) IN
           IF t \in { << >>, << "-" >>, << "." >>, << "," >> } THEN None
           ELSE ParseFloat(SeparatorsNoSingleDot(t))

\* SicalEasyOCRProcessor.clean_number: with the sanity check.
clean_number_easyocr(s) ==
    IF s = << >> THEN None
    ELSE LET t == Residue(Strip(s)) IN
           IF t \in { << >>, << "-" >>, << "." >>, << "," >> } THEN None
           ELSE LET value == ParseFloat(SeparatorsNoSingleDot(t)) IN
                  IF value = None THEN None
                  ELSE IF Exceeds(value) THEN None
                  ELSE value

\* ------------------------------------------------- the recognised text
\* A text is a sequence of lines, a line a sequence of tokens separated by
\* single spaces.  A token is a word or a run of the characters [0-9.,].
Word(w) == [word |-> w, chars |-> << >>]
Number(cs) == [word |-> "", chars |-> cs]
NL == Word("\n")
IsNum(t) == t.chars # << >>

Label(ws) == [i \in 1..Len(ws) |-> Word(ws[i])]

Lines ==
    { Label(<< "Ano" >>) \o << Number(<< "2", "0", "2", "4" >>) >>,
      Label(<< "Ano" >>) \o << Number(<< "1", "9", "9", "9" >>) >>,
      Label(<< "Afio" >>) \o << Number(<< "2", "0", "2", "3" >>) >>,
      Label(<< "Concepto" >>) \o << Number(<< "3", "0", "0", "1", "2" >>) >>,
      Label(<< "INGRESOS", "EN", "CUENTAS" >>),
      Label(<< "Saldo", "Inicial", "Deudor" >>)
          \o << Number(<< "1", "0", "0", ",", "0", "0" >>) >>,
      Label(<< "Saldo", "Pendiente", "Deudor" >>)
          \o << Number(<< "5", "0", "0", ",", "0", "0" >>) >>,
      Label(<< "Acreedor" >>) \o << Number(<< "0", ",", "0", "0" >>) >>,
      Label(<< "Total", "Haber" >>)
          \o << Number(<< "8", "8", "0", ".", "0", "3", "3", ",", "2", "7" >>) >>,
      Label(<< "Total", "Haber" >>) \o << Number(<< "0", ",", "0", "0" >>) >>,
      Label(<< "Haber" >>) \o << Number(<< "5", ",", "0", "0" >>) >>,
      Label(<< "Total", "Debe" >>) \o << Number(<< "1", ",", "2", ",", "3" >>) >>,
      Label(<< "Propuestas", "de", "M/P" >>)
          \o << Number(<< "1", "2", ".", "7", "4", "2", ",", "7", "9" >>) >>,
      Label(<< "Saldo", "Pendiente", "Acreedor" >>),
      << Number(<< "2", "0", "0", "1", "2" >>) >>,
      << Number(<< "2", ".", "0", "2", "5", ",", "5", "0" >>) >>,
      << Number(<< "2", "0", "2", "5" >>) >>,
      Label(<< "Resumen" >>) }

RecognisedTexts == UNION { [1..k -> Lines] : k \in 0..MaxLines }

\* '\n'.join(lines)
RECURSIVE Flat(_)
Flat(ls) ==
    IF ls = << >> THEN << >>
    ELSE IF Len(ls) = 1 THEN ls[1]
    ELSE ls[1] \o << NL >> \o Flat(Tail(ls))

\* Characters of a token.
Width(t) == IF IsNum(t) THEN Len(t.chars) ELSE Len(t.word)

\* Character offset at which token i starts.
RECURSIVE Offset(_, _)
Offset(F, i) ==
    IF i = 1 THEN 0
    ELSE Offset(F, i - 1) + Width(F[i - 1])
           + (IF F[i - 1] = NL \/ F[i] = NL THEN 0 ELSE 1)

Min(S) == CHOOSE m \in S : \A n \in S : m <= n

\* ------------------------------------------------------ regex matching
\* Where a token only begins with the last word of a field name.
Prefixed == { << "M", "M/P" >> }

\* The literal field name ws matches at token i: its words follow each
\* other on one line.
LabelAt(F, i, ws) ==
    /\ i + Len(ws) - 1 <= Len(F)
    /\ \A j \in 1..(Len(ws) - 1) : F[i + j - 1] = Word(ws[j])
    /\ \/ F[i + Len(ws) - 1] = Word(ws[Len(ws)])
       \/ << ws[Len(ws)], F[i + Len(ws) - 1].word >> \in Prefixed

\* Character offset just after the field name matched at token i.
LabelEnd(F, i, ws) == Offset(F, i + Len(ws) - 1) + Len(ws[Len(ws)])

\* Index of the first digit of a character run, 0 when it has none.
FirstDigit(cs) ==
    IF \E k \in 1..Len(cs) : cs[k] \in Digits
    THEN Min({ k \in 1..Len(cs) : cs[k] \in Digits }) ELSE 0

\* Number of leading digits of a character run, at most n.
RECURSIVE LeadDigits(_, _)
LeadDigits(cs, n) ==
    IF n > 0 /\ cs # << >> /\ Head(cs) \in Digits
    THEN 1 + LeadDigits(Tail(cs), n - 1) ELSE 0

From(cs, k) == SubSeq(cs, k, Len(cs))

\* Length matched by (?:[.,][0-9]{3})*
RECURSIVE Groups3(_)
Groups3(cs) ==
    IF Len(cs) >= 4 /\ cs[1] \in {".", ","} /\ LeadDigits(Tail(cs), 3) = 3
    THEN 4 + Groups3(From(cs, 5)) ELSE 0

\* Length matched by (?:[.,][0-9]{2})?
Decimals2(cs) ==
    IF Len(cs) >= 3 /\ cs[1] \in {".", ","} /\ LeadDigits(Tail(cs), 2) = 2
    THEN 3 ELSE 0

\* ([0-9]{1,3}(?:[.,][0-9]{3})*(?:[.,][0-9]{2})?) on a run that starts
\* with a digit.
Pattern4Capture(cs) ==
    LET a == LeadDigits(cs, 3)
        b == Groups3(From(cs, a + 1))
        c == Decimals2(From(cs, a + b + 1))
    IN  SubSeq(cs, 1, a + b + c)

\* Reach of the lazy .{0,50}? and .{0,100}? of patterns 3 and 4.
Reach3 == 50
Reach4 == 100

NoMatch == [tok |-> 0, chars |-> << >>]

\* The capture of pattern p of extract_field_value for the field name
\* matched at token i: the token it is in and the characters captured.
Capture(F, i, ws, p) ==
    LET e == i + Len(ws) - 1
        whole == F[e] = Word(ws[Len(ws)])
        after == IF e + 1 <= Len(F) /\ F[e + 1] = NL THEN e + 2 ELSE e + 1
        near == { j \in (e + 1)..Len(F) :
                    /\ IsNum(F[j])
                    /\ Offset(F, j) - LabelEnd(F, i, ws) <= Reach3 }
        far == { j \in (e + 1)..Len(F) :
                    /\ IsNum(F[j]) /\ FirstDigit(F[j].chars) > 0
                    /\ Offset(F, j) + FirstDigit(F[j].chars) - 1
                         - LabelEnd(F, i, ws) <= Reach4 }
    IN  IF p \in {1, 2}
        THEN IF whole /\ after <= Len(F) /\ IsNum(F[after])
             THEN [tok |-> after, chars |-> F[after].chars] ELSE NoMatch
        ELSE IF p = 3
        THEN IF near # {}
             THEN [tok |-> Min(near), chars |-> F[Min(near)].chars] ELSE NoMatch
        ELSE IF far # {}
             THEN [tok |-> Min(far),
                   chars |-> Pattern4Capture(From(F[Min(far)].chars,
                                                  FirstDigit(F[Min(far)].chars)))]
             ELSE NoMatch

Zero == Num(FALSE, << >>, << >>)

\* The matches of pattern p with "value != 0" dropped from the test: a
\* match that cleans to 0.0 is accepted.
RECURSIVE FirstAcceptedOrZero(_, _, _, _)
FirstAcceptedOrZero(F, ws, p, k) ==
    LET starts == { i \in k..Len(F) :
                      LabelAt(F, i, ws) /\ Capture(F, i, ws, p) # NoMatch }
    IN  IF starts = {} THEN None
        ELSE LET m == Capture(F, Min(starts), ws, p)
                 value == clean_number(m.chars)
             IN  IF value # None THEN value
                 ELSE FirstAcceptedOrZero(F, ws, p, m.tok + 1)

\* re.finditer(pattern, text): the matches of pattern p from token k on,
\* in text order, up to the first whose cleaned value is neither None nor 0.
RECURSIVE FirstAccepted(_, _, _, _)
FirstAccepted(F, ws, p, k) ==
    LET starts == { i \in k..Len(F) :
                      LabelAt(F, i, ws) /\ Capture(F, i, ws, p) # NoMatch }
    IN  IF starts = {} THEN None
        ELSE LET m == Capture(F, Min(starts), ws, p)
                 value == clean_number(m.chars)
             IN  IF value # None /\ value # Zero THEN value
                 ELSE FirstAccepted(F, ws, p, m.tok + 1)

\* The four patterns of a field name, in order.
RECURSIVE TryPatterns(_, _, _)
TryPatterns(F, ws, p) ==
    IF p > 4 THEN None
    ELSE LET value == FirstAccepted(F, ws, p, 1) IN
           IF value # None THEN value ELSE TryPatterns(F, ws, p + 1)

\* extract_field_value that reports 0.0 when nothing is accepted.
extract_field_value_or_zero(F, ws) ==
    LET value == TryPatterns(F, ws, 1) IN IF value = None THEN Zero ELSE value

extract_field_value(F, ws) == TryPatterns(F, ws, 1)

\* The first of several field names that resolves.
RECURSIVE FirstField(_, _)
FirstField(F, names) ==
    IF names = << >> THEN None
    ELSE LET value == extract_field_value(F, Head(names)) IN
           IF value # None THEN value ELSE FirstField(F, Tail(names))

\* ------------------------------------------ extract_data, field by field
\* The text as [:\s]+ and \s+ see it: a line break is white space.
Inline(F) == SelectSeq(F, LAMBDA t : t # NL)

\* Positions in S where one of the words is followed by a number whose
\* leading digits number at least lo (counted up to hi).
LabelledDigits(S, words, lo, hi) ==
    { i \in 1..(Len(S) - 1) :
        /\ S[i].word \in words
        /\ IsNum(S[i + 1])
        /\ LeadDigits(S[i + 1].chars, hi) >= lo }

\* re.search(word[:\s]+(\d{lo,hi})): the digits captured, None without a
\* match.
SearchDigits(S, words, lo, hi) ==
    LET at == LabelledDigits(S, words, lo, hi) IN
      IF at = {} THEN None
      ELSE LET cs == S[Min(at) + 1].chars IN
             [str |-> SubSeq(cs, 1, LeadDigits(cs, hi))]

\* The runs of digits of a character run.
RECURSIVE DigitGroups(_)
DigitGroups(cs) ==
    IF cs = << >> THEN << >>
    ELSE IF Head(cs) \notin Digits THEN DigitGroups(Tail(cs))
    ELSE LET n == LeadDigits(cs, Len(cs)) IN
           << SubSeq(cs, 1, n) >> \o DigitGroups(From(cs, n + 1))

\* The runs of digits of a text, in text order.
RECURSIVE AllDigitGroups(_)
AllDigitGroups(F) ==
    IF F = << >> THEN << >>
    ELSE DigitGroups(Head(F).chars) \o AllDigitGroups(Tail(F))

\* re.search(r'\b(20[0-9]{2})\b')
BareYear(F) ==
    LET gs == AllDigitGroups(F)
        at == { k \in 1..Len(gs) :
                  Len(gs[k]) = 4 /\ gs[k][1] = "2" /\ gs[k][2] = "0" }
    IN  IF at = {} THEN None ELSE [str |-> gs[Min(at)]]

\* int(match.group(1)) of four digits
YearOf(m) ==
    [val |-> 1000 * DigitVal(m.str[1]) + 100 * DigitVal(m.str[2])
               + 10 * DigitVal(m.str[3]) + DigitVal(m.str[4])]

YearMin == 2000
YearMax == 2100

\* for pattern in year_patterns: a match sets year, a year in range ends
\* the loop.
RECURSIVE YearLoop(_, _, _)
YearLoop(ms, k, year) ==
    IF k > Len(ms) THEN year
    ELSE IF ms[k] = None THEN YearLoop(ms, k + 1, year)
    ELSE IF YearMin <= YearOf(ms[k]).val /\ YearOf(ms[k]).val <= YearMax
         THEN YearOf(ms[k])
    ELSE YearLoop(ms, k + 1, YearOf(ms[k]))

\* The texts spell the year label "Ano", one of the two spellings the
\* first pattern accepts.
year_patterns(F) ==
    << SearchDigits(Inline(F), {"Ano"}, 4, 4),
       SearchDigits(Inline(F), {"Afio"}, 4, 4),
       BareYear(F) >>

ResolveYear(F) == YearLoop(year_patterns(F), 1, None)

\* (\d+) of the third concept pattern: every leading digit.
SearchAllDigits(S, words) ==
    LET at == LabelledDigits(S, words, 1, 1) IN
      IF at = {} THEN None
      ELSE LET cs == S[Min(at) + 1].chars IN
             [str |-> SubSeq(cs, 1, LeadDigits(cs, Len(cs)))]

concept_patterns(F) ==
    << SearchDigits(Inline(F), {"Concepto"}, 5, 5),
       SearchDigits(Inline(F), {"Concepto"}, 4, 6),
       SearchAllDigits(Inline(F), {"Concepto"}) >>

\* The first pattern with a match.
RECURSIVE FirstMatch(_)
FirstMatch(ms) ==
    IF ms = << >> THEN None
    ELSE IF Head(ms) # None THEN Head(ms) ELSE FirstMatch(Tail(ms))

\* text.split('\n')[:10]
FirstLines == 10

\* re.findall(r'\b(\d{5})\b', first_lines)[0]
FiveDigit(lines) ==
    LET top == SubSeq(lines, 1, IF Len(lines) < FirstLines THEN Len(lines)
                                 ELSE FirstLines)
        gs == AllDigitGroups(Flat(top))
        at == { k \in 1..Len(gs) : Len(gs[k]) = 5 }
    IN  IF at = {} THEN None ELSE [str |-> gs[Min(at)]]

ResolveConcept(lines) ==
    LET concept == FirstMatch(concept_patterns(Flat(lines))) IN
      IF concept = None THEN FiveDigit(lines) ELSE concept

\* re.search(r'INGRESOS[^\n]*').group(0).strip(): from the word to the end
\* of its line.
ResolveDescription(F) ==
    LET at == { i \in 1..Len(F) : F[i] = Word("INGRESOS") } IN
      IF at = {} THEN None
      ELSE LET ends == { j \in Min(at)..Len(F) : F[j] = NL }
               stop == IF ends = {} THEN Len(F) ELSE Min(ends) - 1
           IN  [str |-> SubSeq(F, Min(at), stop)]

\* Positions in S where the words, separated by white space, are followed
\* by a number.
InlineAt(S, ws) ==
    { i \in 1..(Len(S) - Len(ws)) :
        /\ \A j \in 1..Len(ws) : S[i + j - 1] = Word(ws[j])
        /\ IsNum(S[i + Len(ws)]) }

\* re.findall(pattern, text)[0], None when there is no match.
FindFirst(S, ws) ==
    IF InlineAt(S, ws) = {} THEN NoMatch
    ELSE [tok |-> Min(InlineAt(S, ws)) + Len(ws),
          chars |-> S[Min(InlineAt(S, ws)) + Len(ws)].chars]

deudor_patterns == << << "Deudor" >>, << "Saldo", "Inicial", "Deudor" >> >>
acreedor_patterns == << << "Acreedor" >>, << "Saldo", "Inicial", "Acreedor" >> >>

\* for pattern in patterns: the first match is cleaned and assigned; a
\* value other than None ends the loop.
RECURSIVE BalanceLoop(_, _, _, _)
BalanceLoop(S, patterns, k, value) ==
    IF k > Len(patterns) THEN value
    ELSE LET m == FindFirst(S, patterns[k]) IN
           IF m = NoMatch THEN BalanceLoop(S, patterns, k + 1, value)
           ELSE IF clean_number(m.chars) # None THEN clean_number(m.chars)
           ELSE BalanceLoop(S, patterns, k + 1, None)

\* datetime.now().strftime(...)
Now == [at |-> "now"]

\* The dict built by extract_data from a text that is not empty.
BuildRecord(lines, f) ==
    LET F == Flat(lines) IN
      [ timestamp |-> Now,
        image_file |-> f,
        year |-> ResolveYear(F),
        concept |-> ResolveConcept(lines),
        concept_description |-> ResolveDescription(F),
        saldo_inicial_deudor |-> BalanceLoop(Inline(F), deudor_patterns, 1, None),
        saldo_inicial_acreedor |-> BalanceLoop(Inline(F), acreedor_patterns, 1, None),
        total_haber |-> FirstField(F, << << "Total", "Haber" >>, << "Haber" >> >>),
        total_debe |-> FirstField(F, << << "Total", "Debe" >>, << "Debe" >> >>),
        propuestas_mp |-> FirstField(F, << << "Propuestas", "de", "M/P" >>,
                                         << "Propuestas", "de", "M" >>,
                                         << "Propuestas" >> >>),
        saldo_pendiente_acreedor |->
            FirstField(F, << << "Saldo", "Pendiente", "Acreedor" >>,
                          << "Pendiente", "Acreedor" >> >>),
        saldo_pendiente_deudor |->
            FirstField(F, << << "Saldo", "Pendiente", "Deudor" >>,
                          << "Pendiente", "Deudor" >> >>) ]

\* extract_data on the text extract_text returned.
extract_data(lines, f) ==
    IF lines = << >> THEN None ELSE BuildRecord(lines, f)

\* ----------------------------------------------------------- the state
VARIABLES
    watch,      \* files in the screenshots directory
    archive,    \* files in the processed directory
    records,    \* table budget_tracking, in id order
    markers,    \* table processed_files: its filename column, in id order
    main,       \* main thread: "off", "drain", "watching", "joining"
    todo,       \* image_files still to visit in process_existing_files
    queue,      \* created-events the observer has not yet dispatched
    pc,         \* per handler, its position in the handling of one image
    cur,        \* per handler, the file in hand
    text,       \* per handler, the text extract_text returned
    blank,      \* per handler, whether every combination gave empty text
    data,       \* per handler, the dict extract_data returned
    faults,     \* faults injected so far
    last,       \* the latest finished attempt: file and outcome (history)
    attempted,  \* files whose marker was checked in this run (history)
    lastExit,   \* how the running process ended: "stop" or "crash" (history)
    call        \* the latest direct call of a store or extraction method:
                \* its name, argument and result (used by the
                \* specifications that drive one component alone)

vars == << watch, archive, records, markers, main, todo, queue, pc, cur,
           text, blank, data, faults, last, attempted, lastExit, call >>

ledger == << records, markers >>
places == << watch, archive >>
hand   == << pc, cur, text, blank, data >>

\* The two places the per-image sequence is written out: the loop body of
\* process_existing_files (main thread) and on_created/process_file
\* (observer thread).
Handlers == {"drain", "live"}

NoAttempt == [file |-> NoFile, outcome |-> "none", blank |-> FALSE]

NoCall == [op |-> "none"]

Idle == [h \in Handlers |-> "idle"]

\* Number of budget_tracking rows whose image_file is f.
RecCount(f) == Cardinality({ i \in 1..Len(records) : records[i].image_file = f })

Range(q) == { q[i] : i \in 1..Len(q) }

Boot ==
    /\ watch = {}
    /\ archive = {}
    /\ records = << >>
    /\ markers = << >>
    /\ main = "off"
    /\ todo = << >>
    /\ queue = << >>
    /\ pc = Idle
    /\ cur = [h \in Handlers |-> NoFile]
    /\ text = [h \in Handlers |-> EmptyText]
    /\ blank = [h \in Handlers |-> FALSE]
    /\ data = [h \in Handlers |-> None]
    /\ faults = 0
    /\ last = NoAttempt
    /\ attempted = {}
    /\ lastExit = "none"

Init ==
    /\ Boot
    /\ call = NoCall

\* ------------------------------------------------------------ database
\* A marker check that never finds the marker.
IsFileProcessedNever(f) == FALSE

\* The filenames that have a row in processed_files.
MarkedFiles == Range(markers)

\* Number of processed_files rows whose filename is f.
MarkCount(f) == Cardinality({ i \in 1..Len(markers) : markers[i] = f })

\* SELECT COUNT(*) FROM processed_files WHERE filename = ? ... count > 0
IsFileProcessed(f) == MarkCount(f) > 0

\* An insert that replaces the earlier rows of the same image
\* (INSERT OR REPLACE keyed on image_file).
InsertRowReplacing(rows, d) ==
    SelectSeq(rows, LAMBDA r : r.image_file # d.image_file) \o << d >>

\* An insert whose row is lost (never committed).
InsertRowLost(rows, d) == rows

\* INSERT INTO budget_tracking ... ; commit.  No uniqueness on image_file.
InsertRow(rows, d) == Append(rows, d)

\* get_all_data: SELECT * FROM budget_tracking (a read; the ordering
\* columns are not part of the rows kept here).
get_all_data(rows) == rows

\* LIMIT 10 of get_latest_data.
LatestLimit == 10

RECURSIVE Reverse(_)
Reverse(q) == IF q = << >> THEN << >> ELSE Reverse(Tail(q)) \o << Head(q) >>

\* get_latest_data(): SELECT * ... ORDER BY timestamp DESC LIMIT 10 (a
\* read); rows are inserted in timestamp order.
get_latest_data(rows) ==
    LET r == Reverse(rows) IN
      IF Len(r) <= LatestLimit THEN r ELSE SubSeq(r, 1, LatestLimit)

\* mark_file_processed: INSERT INTO processed_files ... ; commit.  filename
\* is UNIQUE: a second insert raises IntegrityError, which the method
\* catches and logs as a warning.  Either way the method returns None and
\* raises nothing: rows is the table afterwards, ret what the caller sees.
mark_file_processed(ms, f) ==
    IF \E i \in 1..Len(ms) : ms[i] = f
    THEN [rows |-> ms, ret |-> None]
    ELSE [rows |-> Append(ms, f), ret |-> None]

\* The marker insert on a table without the UNIQUE constraint.
InsertMarkerNoUnique(ms, f) == Append(ms, f)

InsertMarker(ms, f) == mark_file_processed(ms, f).rows

\* ---------------------------------------------------------- filesystem
\* glob(pattern) on the watch directory: names ending in the pattern's
\* suffix, letter case included.
Glob(dir, suffix) == { f \in dir : f.suffix = suffix }

\* All orders in which a directory scan can list a set of names.
Listings(S) ==
    { q \in [1..Cardinality(S) -> S] : \A f \in S : \E i \in DOMAIN q : q[i] = f }

\* list(glob('*.png')) + list(glob('*.jpg')) + list(glob('*.jpeg'))
RECURSIVE ImageFiles(_, _)
ImageFiles(dir, k) ==
    IF k > Len(GlobPatterns) THEN { << >> }
    ELSE { a \o b : a \in Listings(Glob(dir, GlobPatterns[k])),
                    b \in ImageFiles(dir, k + 1) }

\* shutil.move(file, processed_dir / name)
MovedFrom(dir, f) == dir \ {f}

\* ------------------------------------------------------------- actions
Running(h) ==
    IF h = "drain" THEN main = "drain" ELSE main \in {"watching", "joining"}

\* The handling of cur[h] ends with outcome o: the handler holds no image.
Finish(h, o) ==
    /\ last' = [file |-> cur[h], outcome |-> o, blank |-> blank[h]]
    /\ pc' = [pc EXCEPT ![h] = "idle"]
    /\ cur' = [cur EXCEPT ![h] = NoFile]
    /\ text' = [text EXCEPT ![h] = EmptyText]
    /\ blank' = [blank EXCEPT ![h] = FALSE]
    /\ data' = [data EXCEPT ![h] = None]

\* An exception is injected into the step being taken.
Fault ==
    /\ faults < MaxFaults
    /\ faults' = faults + 1

\* The process is gone: both threads with it, and the undelivered events.
Exit(kind) ==
    /\ main' = "off"
    /\ todo' = << >>
    /\ queue' = << >>
    /\ pc' = Idle
    /\ cur' = [h \in Handlers |-> NoFile]
    /\ text' = [h \in Handlers |-> EmptyText]
    /\ blank' = [h \in Handlers |-> FALSE]
    /\ data' = [h \in Handlers |-> None]
    /\ lastExit' = kind

\* The operator drops a new file into the watch directory.  The observer
\* reports it only while it is started and not stopped.
CreateFile(f) ==
    /\ f \notin watch \cup archive
    /\ watch' = watch \cup {f}
    /\ queue' = IF main = "watching" THEN Append(queue, f) ELSE queue
    /\ UNCHANGED << archive, ledger, main, todo, hand, faults, last,
                    attempted, lastExit >>
    /\ UNCHANGED call

\* start_monitoring up to the glob of process_existing_files.
StartMonitoring ==
    /\ main = "off"
    /\ main' = "drain"
    /\ \E files \in ImageFiles(watch, 1) : todo' = files
    /\ attempted' = {}
    /\ last' = NoAttempt
    /\ lastExit' = "none"
    /\ UNCHANGED << places, ledger, queue, hand, faults >>
    /\ UNCHANGED call

\* for file_path in image_files:
DrainNext ==
    /\ main = "drain"
    /\ pc["drain"] = "idle"
    /\ todo # << >>
    /\ cur' = [cur EXCEPT !["drain"] = Head(todo)]
    /\ todo' = Tail(todo)
    /\ pc' = [pc EXCEPT !["drain"] = "check"]
    /\ UNCHANGED << places, ledger, main, queue, text, blank, data, faults,
                    last, attempted, lastExit >>
    /\ UNCHANGED call

\* process_existing_files returns; observer.schedule, observer.start.
DrainDone ==
    /\ main = "drain"
    /\ pc["drain"] = "idle"
    /\ todo = << >>
    /\ main' = "watching"
    /\ UNCHANGED << places, ledger, todo, queue, hand, faults, last,
                    attempted, lastExit >>
    /\ UNCHANGED call

\* on_created handed the newest undelivered event instead of the oldest.
OnCreatedNewest ==
    /\ main = "watching"
    /\ pc["live"] = "idle"
    /\ queue # << >>
    /\ queue' = SubSeq(queue, 1, Len(queue) - 1)
    /\ IF AcceptedLive(queue[Len(queue)])
       THEN /\ pc' = [pc EXCEPT !["live"] = "debounce"]
            /\ cur' = [cur EXCEPT !["live"] = queue[Len(queue)]]
       ELSE UNCHANGED << pc, cur >>
    /\ UNCHANGED << places, ledger, main, todo, text, blank, data, faults,
                    last, attempted, lastExit >>
    /\ UNCHANGED call

\* on_created without the settle delay: straight to the marker check.
OnCreatedNoSettle ==
    /\ main = "watching"
    /\ pc["live"] = "idle"
    /\ queue # << >>
    /\ queue' = Tail(queue)
    /\ IF AcceptedLive(Head(queue))
       THEN /\ pc' = [pc EXCEPT !["live"] = "check"]
            /\ cur' = [cur EXCEPT !["live"] = Head(queue)]
       ELSE UNCHANGED << pc, cur >>
    /\ UNCHANGED << places, ledger, main, todo, text, blank, data, faults,
                    last, attempted, lastExit >>
    /\ UNCHANGED call

\* on_created up to the settle delay: the extension filter.
OnCreated ==
    /\ main = "watching"
    /\ pc["live"] = "idle"
    /\ queue # << >>
    /\ queue' = Tail(queue)
    /\ IF AcceptedLive(Head(queue))
       THEN /\ pc' = [pc EXCEPT !["live"] = "debounce"]
            /\ cur' = [cur EXCEPT !["live"] = Head(queue)]
       ELSE UNCHANGED << pc, cur >>
    /\ UNCHANGED << places, ledger, main, todo, text, blank, data, faults,
                    last, attempted, lastExit >>
    /\ UNCHANGED call

\* time.sleep(2)
Debounce ==
    /\ Running("live")
    /\ pc["live"] = "debounce"
    /\ pc' = [pc EXCEPT !["live"] = "check"]
    /\ UNCHANGED << places, ledger, main, todo, queue, cur, text, blank,
                    data, faults, last, attempted, lastExit >>
    /\ UNCHANGED call

\* if database.is_file_processed(name): skip
CheckMarker(h) ==
    /\ Running(h)
    /\ pc[h] = "check"
    /\ attempted' = attempted \cup {cur[h]}
    /\ IF IsFileProcessed(cur[h])
       THEN Finish(h, "skipped")
       ELSE /\ pc' = [pc EXCEPT ![h] = "ocr"]
            /\ UNCHANGED << cur, text, blank, data, last >>
    /\ UNCHANGED << places, ledger, main, todo, queue, faults, lastExit >>
    /\ UNCHANGED call

\* extract_data, first half: text = self.extract_text(image_path)
Ocr(h) ==
    /\ Running(h)
    /\ pc[h] = "ocr"
    /\ \E o \in ExtractOutcomes :
          /\ text' = [text EXCEPT ![h] = o.text]
          /\ blank' = [blank EXCEPT ![h] = o.blank]
    /\ pc' = [pc EXCEPT ![h] = "resolve"]
    /\ UNCHANGED << places, ledger, main, todo, queue, cur, data, faults,
                    last, attempted, lastExit >>
    /\ UNCHANGED call

\* extract_data, second half, and the caller's "if data:".
Resolve(h) ==
    /\ Running(h)
    /\ pc[h] = "resolve"
    /\ LET d == ExtractData(text[h], cur[h]) IN
         IF d = None
         THEN Finish(h, "nodata")
         ELSE /\ data' = [data EXCEPT ![h] = d]
              /\ pc' = [pc EXCEPT ![h] = "insert"]
              /\ UNCHANGED << cur, text, blank, last >>
    /\ UNCHANGED << places, ledger, main, todo, queue, faults, attempted,
                    lastExit >>
    /\ UNCHANGED call

\* extract_data raises instead of returning:
\* "except Exception as e: logger.error(...)".
ExtractRaises(h) ==
    /\ Running(h)
    /\ pc[h] = "ocr"
    /\ Fault
    /\ Finish(h, "error_extract")
    /\ UNCHANGED << places, ledger, main, todo, queue, attempted, lastExit >>
    /\ UNCHANGED call

\* database.insert_data(data)
InsertData(h) ==
    /\ Running(h)
    /\ pc[h] = "insert"
    /\ records' = InsertRow(records, data[h])
    /\ pc' = [pc EXCEPT ![h] = "mark"]
    /\ UNCHANGED << places, markers, main, todo, queue, cur, text, blank,
                    data, faults, last, attempted, lastExit >>
    /\ UNCHANGED call

InsertFails(h) ==
    /\ Running(h)
    /\ pc[h] = "insert"
    /\ Fault
    /\ Finish(h, "error_insert")
    /\ UNCHANGED << places, ledger, main, todo, queue, attempted, lastExit >>
    /\ UNCHANGED call

\* database.mark_file_processed(name)
MarkFileProcessed(h) ==
    /\ Running(h)
    /\ pc[h] = "mark"
    /\ markers' = InsertMarker(markers, cur[h])
    /\ pc' = [pc EXCEPT ![h] = "move"]
    /\ UNCHANGED << places, records, main, todo, queue, cur, text, blank,
                    data, faults, last, attempted, lastExit >>
    /\ UNCHANGED call

\* The marker insert raises something other than IntegrityError (the store
\* is locked or full): the exception reaches the caller's except clause.
MarkFails(h) ==
    /\ Running(h)
    /\ pc[h] = "mark"
    /\ Fault
    /\ Finish(h, "error_mark")
    /\ UNCHANGED << places, ledger, main, todo, queue, attempted, lastExit >>
    /\ UNCHANGED call

\* The move taken as soon as the record is stored, marker or no marker.
MoveFileEarly(h) ==
    /\ Running(h)
    /\ pc[h] \in {"mark", "move"}
    /\ watch' = MovedFrom(watch, cur[h])
    /\ archive' = archive \cup {cur[h]}
    /\ Finish(h, "committed")
    /\ UNCHANGED << ledger, main, todo, queue, faults, attempted, lastExit >>
    /\ UNCHANGED call

\* shutil.move(file_path, dest_path)
MoveFile(h) ==
    /\ Running(h)
    /\ pc[h] = "move"
    /\ watch' = MovedFrom(watch, cur[h])
    /\ archive' = archive \cup {cur[h]}
    /\ Finish(h, "committed")
    /\ UNCHANGED << ledger, main, todo, queue, faults, attempted, lastExit >>
    /\ UNCHANGED call

MoveFails(h) ==
    /\ Running(h)
    /\ pc[h] = "move"
    /\ Fault
    /\ Finish(h, "error_move")
    /\ UNCHANGED << places, ledger, main, todo, queue, attempted, lastExit >>
    /\ UNCHANGED call

\* Ctrl+C while the main thread is inside process_existing_files: the call
\* is outside start_monitoring's try, and "except Exception" does not catch
\* KeyboardInterrupt, so the process ends where it stands.
InterruptDrain ==
    /\ main = "drain"
    /\ Fault
    /\ Exit("stop")
    /\ UNCHANGED << places, ledger, last, attempted >>
    /\ UNCHANGED call

\* Ctrl+C in the sleep loop: observer.stop().
InterruptWatch ==
    /\ main = "watching"
    /\ main' = "joining"
    /\ UNCHANGED << places, ledger, todo, queue, hand, faults, last,
                    attempted, lastExit >>
    /\ UNCHANGED call

\* observer.join() returns once the handler in progress has returned.
Join ==
    /\ main = "joining"
    /\ pc["live"] = "idle"
    /\ Exit("stop")
    /\ UNCHANGED << places, ledger, faults, last, attempted >>
    /\ UNCHANGED call

\* The process is killed (power loss, kill -9) at any point.
Crash ==
    /\ main # "off"
    /\ Fault
    /\ Exit("crash")
    /\ UNCHANGED << places, ledger, last, attempted >>
    /\ UNCHANGED call

Next ==
    \/ \E f \in Files : CreateFile(f)
    \/ StartMonitoring
    \/ DrainNext
    \/ DrainDone
    \/ OnCreated
    \/ Debounce
    \/ \E h \in Handlers : CheckMarker(h)
    \/ \E h \in Handlers : Ocr(h)
    \/ \E h \in Handlers : Resolve(h)
    \/ \E h \in Handlers : ExtractRaises(h)
    \/ \E h \in Handlers : InsertData(h)
    \/ \E h \in Handlers : InsertFails(h)
    \/ \E h \in Handlers : MarkFileProcessed(h)
    \/ \E h \in Handlers : MarkFails(h)
    \/ \E h \in Handlers : MoveFile(h)
    \/ \E h \in Handlers : MoveFails(h)
    \/ InterruptDrain
    \/ InterruptWatch
    \/ Join
    \/ Crash

Spec == Init /\ [][Next]_vars

\* ------------------------------------- the move across filesystems
\* shutil.move renames when os.rename succeeds; when it raises OSError
\* (the processed directory is on another filesystem) it copies the file
\* to the destination and then unlinks the source: two steps.
MoveCopy(h) ==
    /\ Running(h)
    /\ pc[h] = "move"
    /\ archive' = archive \cup {cur[h]}
    /\ pc' = [pc EXCEPT ![h] = "unlink"]
    /\ UNCHANGED << watch, ledger, main, todo, queue, cur, text, blank, data,
                    faults, last, attempted, lastExit >>
    /\ UNCHANGED call

MoveUnlink(h) ==
    /\ Running(h)
    /\ pc[h] = "unlink"
    /\ watch' = MovedFrom(watch, cur[h])
    /\ Finish(h, "committed")
    /\ UNCHANGED << archive, ledger, main, todo, queue, faults, attempted,
                    lastExit >>
    /\ UNCHANGED call

NextMove ==
    \/ Next
    \/ \E h \in Handlers : MoveCopy(h)
    \/ \E h \in Handlers : MoveUnlink(h)

SpecMove == Init /\ [][NextMove]_vars

\* ------------------------------------------- the store driven directly
\* A client calls the methods of SicalDatabase in any order, with any
\* arguments: the controller plays no part.
ctl == << watch, archive, main, todo, queue, pc, cur, text, blank, data,
          faults, last, attempted, lastExit >>

\* The data dicts a client can hand to insert_data.
StoreRows == { [image_file |-> f, found |-> F] : f \in Files, F \in FoundChoices }

CallInsertData(d) ==
    /\ Len(records) < MaxRows
    /\ records' = InsertRow(records, d)
    /\ call' = [op |-> "insert_data", arg |-> d, ret |-> None, dup |-> FALSE]
    /\ UNCHANGED << markers, ctl >>

CallMarkFileProcessed(f) ==
    /\ Len(markers) < MaxRows
    /\ markers' = InsertMarker(markers, f)
    /\ call' = [op |-> "mark_file_processed", arg |-> f,
                ret |-> mark_file_processed(markers, f).ret,
                dup |-> IsFileProcessed(f)]
    /\ UNCHANGED << records, ctl >>

CallIsFileProcessed(f) ==
    /\ call' = [op |-> "is_file_processed", arg |-> f,
                ret |-> IsFileProcessed(f), dup |-> FALSE]
    /\ UNCHANGED << ledger, ctl >>

CallGetAllData ==
    /\ call' = [op |-> "get_all_data", arg |-> None,
                ret |-> get_all_data(records), dup |-> FALSE]
    /\ UNCHANGED << ledger, ctl >>

CallGetLatestData ==
    /\ call' = [op |-> "get_latest_data", arg |-> None,
                ret |-> get_latest_data(records), dup |-> FALSE]
    /\ UNCHANGED << ledger, ctl >>

NextStore ==
    \/ \E d \in StoreRows : CallInsertData(d)
    \/ \E f \in Files : CallMarkFileProcessed(f)
    \/ \E f \in Files : CallIsFileProcessed(f)
    \/ CallGetAllData
    \/ CallGetLatestData

SpecStore == Init /\ [][NextStore]_vars

\* ------------------------------------------- clean_number on its own
\* clean_number applied to each input string.
InitNorm ==
    /\ Boot
    /\ call \in { [op |-> "input", arg |-> s] : s \in NumberInputs }

CallCleanNumber ==
    /\ call.op = "input"
    /\ call' = [op |-> "clean_number", arg |-> call.arg,
                ret |-> clean_number(call.arg)]
    /\ UNCHANGED << ledger, ctl >>

NextNorm == CallCleanNumber

SpecNorm == InitNorm /\ [][NextNorm]_vars

\* ------------------------------------- the three clean_number side by side
\* The same string handed to clean_number of each of the three processors.
CallCleanNumberEnhanced ==
    /\ call.op = "clean_number"
    /\ call' = [op |-> "clean_number_enhanced", arg |-> call.arg,
                ret |-> call.ret, enhanced |-> clean_number_enhanced(call.arg)]
    /\ UNCHANGED << ledger, ctl >>

CallCleanNumberEasyocr ==
    /\ call.op = "clean_number_enhanced"
    /\ call' = [op |-> "clean_number_easyocr", arg |-> call.arg,
                ret |-> call.ret, enhanced |-> call.enhanced,
                easyocr |-> clean_number_easyocr(call.arg)]
    /\ UNCHANGED << ledger, ctl >>

NextAgree ==
    \/ NextNorm
    \/ CallCleanNumberEnhanced
    \/ CallCleanNumberEasyocr

SpecAgree == InitNorm /\ [][NextAgree]_vars

\* --------------------------------------------- extract_data on its own
\* extract_data applied to each recognised text, and the dict it returns
\* handed to insert_data.
InitFields ==
    /\ Boot
    /\ call \in { [op |-> "text", arg |-> t, image |-> f, ret |-> None] :
                    t \in RecognisedTexts, f \in { g \in Files : AcceptedLive(g) } }

CallExtractData ==
    /\ call.op = "text"
    /\ call' = [call EXCEPT !.op = "extract_data",
                            !.ret = extract_data(call.arg, call.image)]
    /\ UNCHANGED << ledger, ctl >>

StoreRecord ==
    /\ call.op = "extract_data"
    /\ call.ret # None
    /\ records' = InsertRow(records, call.ret)
    /\ call' = [call EXCEPT !.op = "insert_data"]
    /\ UNCHANGED << markers, ctl >>

NextFields ==
    \/ CallExtractData
    \/ StoreRecord

SpecFields == InitFields /\ [][NextFields]_vars

\* ------------------------------- extract_text and extract_data on an image
\* extract_data of SicalOCRProcessor applied to one image: extract_text over
\* the cross-product first, then the fields resolved from what it returned.
InitText ==
    /\ Boot
    /\ call \in { [op |-> "image", arg |-> s, image |-> f, called |-> {},
                    ret |-> None, data |-> None] :
                    s \in Scenarios, f \in { g \in Files : AcceptedLive(g) } }

CallExtractText ==
    /\ call.op = "image"
    /\ call' = [call EXCEPT !.op = "extract_text",
                            !.called = CalledCombos(call.arg),
                            !.ret = ExtractText(call.arg)]
    /\ UNCHANGED << ledger, ctl >>

ResolveFromText ==
    /\ call.op = "extract_text"
    /\ call' = [call EXCEPT !.op = "extract_data",
                            !.data = ExtractData(call.ret, call.image)]
    /\ UNCHANGED << ledger, ctl >>

NextText ==
    \/ CallExtractText
    \/ ResolveFromText

SpecText == InitText /\ [][NextText]_vars

\* ------------------------------------------------------------- claims
\* A step in which handler h leaves position p and the process lives on.
Leaves(h, p) == pc[h] = p /\ pc'[h] # p /\ main' # "off"

C2_MarkerFailureLeavesNothing ==
    last.outcome = "error_mark"
        => /\ RecCount(last.file) = 0
           /\ last.file \notin MarkedFiles
           /\ last.file \in watch
           /\ last.file \notin archive

\* C3: in every state left behind by a crash, a filename has a marker if
\* and only if it has a record.
C3_CrashAtomicity ==
    (main = "off" /\ lastExit = "crash")
        => \A f \in Files : f \in MarkedFiles <=> RecCount(f) > 0

\* C4: the ledger never holds two records with the same filename.
C4_NoDuplicateRecords ==
    \A f \in Files : RecCount(f) <= 1

\* C5: a committed image leaves the watch directory at the latest when it
\* is rediscovered: once the attempt that found its marker has ended, the
\* file is no longer in the watch directory.
C5_CommittedLeavesWatch ==
    last.outcome = "skipped" => last.file \notin watch

\* C6: when the controller is watching and has nothing left to do (no
\* pending event, no image in hand), every file of an accepted extension
\* that is in the watch directory has been taken through the marker check
\* in this run.
C6_NoImageMissed ==
    (main = "watching" /\ queue = << >> /\ pc["live"] = "idle")
        => \A f \in watch : AcceptedLive(f) => f \in attempted

\* C7: the controller never exits on the stop signal while a handler has
\* inserted the record of its image and not yet written the marker or
\* moved the file.
C7_GracefulStop ==
    [][ (main # "off" /\ main' = "off" /\ lastExit' = "stop")
           => \A h \in Handlers : pc[h] \notin {"mark", "move"} ]_vars

\* C8: when every (variant, configuration) combination returned empty
\* text, extract_data returns None, the attempt ends with the outcome
\* "nodata" (no exception), and neither the ledger nor the two directories
\* change.
C8_NoTextDegradation ==
    [][ \A h \in Handlers :
           (Leaves(h, "resolve") /\ blank[h])
              => /\ ExtractData(text[h], cur[h]) = None
                 /\ pc'[h] = "idle"
                 /\ last' = [file |-> cur[h], outcome |-> "nodata",
                             blank |-> TRUE]
                 /\ UNCHANGED << ledger, places >> ]_vars

C8_Witness ==
    /\ last.outcome = "nodata"
    /\ last.blank
    /\ last.file \in watch
    /\ last.file \notin MarkedFiles
    /\ RecCount(last.file) = 0

\* C9: an attempt whose extraction raises changes neither the ledger nor
\* the two directories and leaves the image unmarked; and when the
\* controller next starts with that file still in the watch directory,
\* the backlog drain has it among the files it visits.
C9_RejectionRetryable ==
    [][ /\ \A h \in Handlers :
              (Leaves(h, "ocr") /\ last'.outcome = "error_extract")
                 => /\ UNCHANGED << ledger, places >>
                    /\ cur[h] \notin MarkedFiles'
        /\ (main = "off" /\ main' = "drain"
              /\ last.outcome = "error_extract" /\ last.file \in watch)
             => last.file \in Range(todo') ]_vars

\* C10: no record is written for an image none of whose ten fields was
\* resolved: every record of the ledger has at least one field.
C10_ZeroFieldsNoRecord ==
    \A i \in 1..Len(records) : records[i].found # {}

\* C11: whatever mark_file_processed calls are made, repeated ones with the
\* same filename included, processed_files never holds two rows with the
\* same filename.
C11_MarkerUnique ==
    \A f \in Files : MarkCount(f) <= 1

C11_Witness ==
    /\ call.op = "mark_file_processed"
    /\ call.dup
    /\ MarkCount(call.arg) = 1

\* C12: a mark_file_processed call for a filename that is already marked
\* hands its caller an outcome different from the outcome of a first,
\* successful insert of that filename.
C12_DuplicateDistinguishable ==
    (call.op = "mark_file_processed" /\ call.dup)
        => call.ret # mark_file_processed(<< >>, call.arg).ret

\* C14: no store method changes or removes a row of budget_tracking: each
\* step leaves every existing row where it is, with all its values, and
\* only ever adds rows after them.
C14_AppendOnly ==
    [][ /\ Len(records') >= Len(records)
        /\ \A i \in 1..Len(records) : records'[i] = records[i] ]_vars

C14_Witness ==
    /\ Len(records) = 2
    /\ records[1].image_file = records[2].image_file
    /\ records[1] # records[2]
    /\ call.op \in {"get_all_data", "get_latest_data"}

\* The separator rule as the claim words it: a lone dot is a thousands
\* separator when exactly three digits follow it.
RefSeparators(t) ==
    LET dots == Count(t, ".")
        commas == Count(t, ",")
    IN  IF dots > 0 /\ commas > 0 THEN Replace(Remove(t, "."), ",", ".")
        ELSE IF commas = 1 /\ dots = 0 THEN Replace(t, ",", ".")
        ELSE IF dots > 1 /\ commas = 0 THEN Remove(t, ".")
        ELSE IF dots = 1 /\ commas = 0
             THEN IF Len(AfterDot(t)) = 3
                     /\ \A i \in 1..3 : AfterDot(t)[i] \in Digits
                  THEN Remove(t, ".") ELSE t
        ELSE t

RefNormalize(s) ==
    LET v == ParseFloat(RefSeparators(Residue(s))) IN
      IF v = None THEN None ELSE IF Exceeds(v) THEN None ELSE v

\* C15: for every input string, clean_number returns what the reference
\* separator rule returns on the string stripped to [0-9.,-].
C15_SeparatorRules ==
    call.op = "clean_number" => call.ret = RefNormalize(call.arg)

\* A decimal numeral: optional '-', digits with at most one point, at
\* least one digit.
IsDecimal(t) ==
    LET body == IF t # << >> /\ Head(t) = "-" THEN Tail(t) ELSE t IN
      /\ Count(body, "-") = 0
      /\ Count(body, ",") = 0
      /\ Count(body, ".") <= 1
      /\ Len(body) > Count(body, ".")

\* C16: clean_number returns None when the stripped residue has no digit,
\* when the text left by the separator rules is not a decimal numeral, and
\* when the parsed value is above 1e15 in magnitude; a value it returns is
\* at most 1e15 in magnitude.
C16_Rejection ==
    call.op = "clean_number" =>
      LET t == Residue(call.arg)
          c == Separators(t)
      IN  /\ (\A i \in 1..Len(t) : t[i] \notin Digits) => call.ret = None
          /\ ~IsDecimal(c) => call.ret = None
          /\ (IsDecimal(c) /\ Exceeds(ParseFloat(c))) => call.ret = None
          /\ call.ret # None =>
               /\ Len(call.ret.int) <= CeilingExp + 1
               /\ Len(call.ret.int) = CeilingExp + 1 =>
                    (call.ret.int = CeilingInt /\ call.ret.frac = << >>)

C16_Witness ==
    /\ call.op = "clean_number"
    /\ call.arg = Nines(20)
    /\ call.ret = None

ValueFields ==
    { "saldo_inicial_deudor", "saldo_inicial_acreedor", "total_haber",
      "total_debe", "propuestas_mp", "saldo_pendiente_acreedor",
      "saldo_pendiente_deudor" }

\* The word without which no rule of a numeric field can match.
KeyWord ==
    [ saldo_inicial_deudor |-> "Deudor", saldo_inicial_acreedor |-> "Acreedor",
      total_haber |-> "Haber", total_debe |-> "Debe",
      propuestas_mp |-> "Propuestas", saldo_pendiente_acreedor |-> "Acreedor",
      saldo_pendiente_deudor |-> "Deudor" ]

HasWord(lines, w) ==
    \E i \in 1..Len(lines) : \E j \in 1..Len(lines[i]) : lines[i][j] = Word(w)

HasNumber(lines) ==
    \E i \in 1..Len(lines) : \E j \in 1..Len(lines[i]) : IsNum(lines[i][j])

\* Timestamp and filename set; every field None or a value of its kind.
WellShaped(r) ==
    /\ r.timestamp # None
    /\ r.image_file # None
    /\ r.image_file \in Files
    /\ r.year = None \/ DOMAIN r.year = {"val"}
    /\ r.concept = None \/ (DOMAIN r.concept = {"str"} /\ r.concept.str # << >>)
    /\ \/ r.concept_description = None
       \/ /\ DOMAIN r.concept_description = {"str"}
          /\ r.concept_description.str # << >>
    /\ \A k \in ValueFields : r[k] = None \/ DOMAIN r[k] = {"neg", "int", "frac"}

\* A field none of whose rules can match the text is None.
AbsentIsNone(lines, r) ==
    /\ ~HasNumber(lines) => (r.year = None /\ r.concept = None)
    /\ ~HasWord(lines, "INGRESOS") => r.concept_description = None
    /\ \A k \in ValueFields :
         (~HasWord(lines, KeyWord[k]) \/ ~HasNumber(lines)) => r[k] = None

\* C13: every record extract_data returns, and every row insert_data stores
\* from it, has a timestamp and a filename; each of its ten fields is None
\* or a resolved value, and a field no rule matched is None, not zero and
\* not the empty string.
C13_RecordShape ==
    /\ (call.op \in {"extract_data", "insert_data"} /\ call.ret # None) =>
          (WellShaped(call.ret) /\ AbsentIsNone(call.arg, call.ret))
    /\ \A i \in 1..Len(records) :
          /\ WellShaped(records[i])
          /\ call.op = "insert_data" => records[i] = call.ret

C13_Witness ==
    /\ call.op = "insert_data"
    /\ Len(records) = 1
    /\ records[1].year # None
    /\ records[1].total_haber = None
    /\ records[1].saldo_inicial_acreedor = Zero

\* The years the text gives after a year label.
LabelledYears(F) ==
    { YearOf([str |-> SubSeq(Inline(F)[i + 1].chars, 1, 4)]) :
        i \in LabelledDigits(Inline(F), {"Ano", "Afio"}, 4, 4) }

\* C17: when the text has a fully-labelled match for a field, extract_data
\* gives the field the value of that match, wherever a looser match stands
\* in the text; the bare year scan and the five-digit scan are used only
\* when the text has no labelled year or concept.
C17_LabelledWins ==
    (call.op = "extract_data" /\ call.ret # None) =>
      LET F == Flat(call.arg)
          S == Inline(F)
          deudor == FindFirst(S, deudor_patterns[2])
          acreedor == FindFirst(S, acreedor_patterns[2])
      IN  /\ LabelledYears(F) # {} => call.ret.year \in LabelledYears(F)
          /\ FirstMatch(concept_patterns(F)) # None =>
                call.ret.concept = FirstMatch(concept_patterns(F))
          /\ deudor # NoMatch =>
                call.ret.saldo_inicial_deudor = clean_number(deudor.chars)
          /\ acreedor # NoMatch =>
                call.ret.saldo_inicial_acreedor = clean_number(acreedor.chars)
          /\ extract_field_value(F, << "Total", "Haber" >>) # None =>
                call.ret.total_haber = extract_field_value(F, << "Total", "Haber" >>)

\* C18: a marker is written only for a file that already has a record, a
\* file is moved only when it already has record and marker, and so every
\* file in the archive has both.
C18_CommitOrder ==
    [][ /\ \A f \in Files :
             (f \in MarkedFiles' /\ f \notin MarkedFiles) => RecCount(f) >= 1
        /\ \A f \in Files :
             (f \in archive' /\ f \notin archive) =>
                 (f \in MarkedFiles /\ RecCount(f) >= 1)
        /\ \A f \in archive' : f \in MarkedFiles' /\ RecCount(f)' >= 1 ]_vars

C18_Witness ==
    /\ last.outcome = "committed"
    /\ last.file \in archive
    /\ last.file \in MarkedFiles
    /\ RecCount(last.file) >= 1

\* C19: the backlog drain takes up exactly the files of the watch directory
\* that the live path accepts.
C19_DrainAcceptsLiveSet ==
    [][ (main = "off" /\ main' = "drain") =>
            Range(todo') = { f \in watch : AcceptedLive(f) } ]_vars

\* The steps an image on the live path may take; from every position the
\* handling may end.
LiveEdges ==
    { << "idle", "debounce" >>, << "debounce", "check" >>,
      << "check", "ocr" >>, << "ocr", "resolve" >>,
      << "resolve", "insert" >>, << "insert", "mark" >>,
      << "mark", "move" >> }
    \cup { << p, "idle" >> : p \in {"debounce", "check", "ocr", "resolve",
                                   "insert", "mark", "move"} }

C21_Sequential ==
    [][ /\ ~(pc'["drain"] # "idle" /\ pc'["live"] # "idle")
        /\ pc'["live"] # "idle" =>
             (main' \in {"watching", "joining"} /\ todo' = << >>)
        /\ (pc["live"] = "idle" /\ pc'["live"] # "idle") =>
             (queue # << >> /\ cur'["live"] = Head(queue) /\ queue' = Tail(queue))
        /\ (Len(queue') < Len(queue) /\ main' # "off") => queue' = Tail(queue)
      ]_vars

C21_Witness ==
    /\ pc["live"] = "ocr"
    /\ Len(queue) >= 1
    /\ AcceptedLive(queue[1])

ErrorOutcomes == {"error_extract", "error_insert", "error_mark", "error_move"}

\* C22: a step in which the handling of an image ends with an exception
\* leaves the controller running with its remaining backlog and events, and
\* the ledger holds no record and no marker of that image.
C22_ErrorContained ==
    [][ (last' # last /\ last'.outcome \in ErrorOutcomes) =>
          /\ main' = main
          /\ todo' = todo
          /\ queue' = queue
          /\ \A i \in 1..Len(records') : records'[i].image_file # last'.file
          /\ last'.file \notin MarkedFiles' ]_vars

\* C28: every filename in processed_files has at least one row in
\* budget_tracking, in every state, those after a crash or an exception
\* included.
C28_MarkedImpliesRecorded ==
    \A f \in MarkedFiles : RecCount(f) >= 1

C28_Witness ==
    /\ lastExit = "crash"
    /\ faults = MaxFaults
    /\ MarkedFiles # {}
    /\ \E f \in MarkedFiles : f \in watch

\* C23: once the process has ended, by a stop or by a crash at any point,
\* no file is in the watch directory and in the archive at once.
C23_ExactlyOnePlace ==
    main = "off" => watch \cap archive = {}

\* C24: a combination that fails never causes another to be skipped: every
\* combination whose preprocessing variant loads the image is attempted, and
\* the text of every one that returns is considered for the result.
Loadable(s) == { c \in Combos : s.pre[c[1]] }
C24_FailureIsolation ==
    call.op = "extract_text" =>
        /\ call.called = Loadable(call.arg)
        /\ \A c \in Loadable(call.arg) :
              call.arg.ocr[c] # Raise => call.ret.len >= call.arg.ocr[c].len

\* C25: extract_text makes at most 12 recognition calls and returns the
\* longest text produced, the earliest in (variant, configuration) order
\* among equally long ones, and the empty text when none is non-empty.
Produced(s) == { c \in CalledCombos(s) : s.ocr[c] # Raise }
Earlier(c, d) == c[1] < d[1] \/ (c[1] = d[1] /\ c[2] < d[2])
Longest(s) ==
    { c \in Produced(s) : \A d \in Produced(s) : s.ocr[d].len <= s.ocr[c].len }
C25_BestCandidate ==
    call.op = "extract_text" =>
        LET s == call.arg
            nonEmpty == { c \in Longest(s) : s.ocr[c].len > 0 } IN
        /\ Cardinality(call.called) <= Len(Methods) * Len(tesseract_configs)
        /\ call.called \subseteq Combos
        /\ IF nonEmpty = {} THEN call.ret = EmptyText
           ELSE \E c \in nonEmpty :
                  /\ call.ret = s.ocr[c]
                  /\ \A d \in nonEmpty : d = c \/ Earlier(c, d)
C25_Witness ==
    /\ call.op = "extract_text"
    /\ call.ret.len > 0
    /\ \E c, d \in Longest(call.arg) :
          /\ Earlier(c, d)
          /\ call.arg.ocr[c] # call.arg.ocr[d]
          /\ call.ret = call.arg.ocr[c]

\* C26: the record is resolved against every candidate produced, not only
\* the longest: a field legible in any candidate is present in the record.
C26_AllCandidates ==
    call.op = "extract_data" =>
        \A c \in Produced(call.arg) :
            call.arg.ocr[c].found # {} =>
                /\ call.data # None
                /\ call.arg.ocr[c].found \subseteq call.data.found

VolatileFields ==
    { "total_haber", "total_debe", "propuestas_mp",
      "saldo_pendiente_acreedor", "saldo_pendiente_deudor" }

\* The field names extract_data hands to extract_field_value.
VolatileNames ==
    { << "Total", "Haber" >>, << "Haber" >>, << "Total", "Debe" >>, << "Debe" >>,
      << "Propuestas", "de", "M/P" >>, << "Propuestas", "de", "M" >>,
      << "Propuestas" >>, << "Saldo", "Pendiente", "Acreedor" >>,
      << "Pendiente", "Acreedor" >>, << "Saldo", "Pendiente", "Deudor" >>,
      << "Pendiente", "Deudor" >> }

HaberFive == Label(<< "Haber" >>) \o << Number(<< "5", ",", "0", "0" >>) >>
AcreedorZero == Label(<< "Acreedor" >>) \o << Number(<< "0", ",", "0", "0" >>) >>
TotalHaberZero == Label(<< "Total", "Haber" >>) \o << Number(<< "0", ",", "0", "0" >>) >>

\* C27: extract_field_value never returns 0: a match that cleans to zero is
\* passed over and the search goes on with the next match and rule, so the
\* movement, proposed-transfer and pending-balance fields of a record are
\* None or non-zero, while an initial balance read as 0,00 is recorded 0.0.
C27_ZeroIsNoMatch ==
    (call.op \in {"extract_data", "insert_data"} /\ call.ret # None) =>
        /\ \A ws \in VolatileNames : extract_field_value(Flat(call.arg), ws) # Zero
        /\ \A k \in VolatileFields : call.ret[k] # Zero
        /\ (\E i \in 1..Len(call.arg) : call.arg[i] = HaberFive) =>
              (call.ret.total_haber # None /\ call.ret.total_haber # Zero)
        /\ call.arg[1] = AcreedorZero => call.ret.saldo_inicial_acreedor = Zero

C27_Witness ==
    /\ call.op = "extract_data"
    /\ call.arg = << AcreedorZero, TotalHaberZero >>
    /\ call.ret.saldo_inicial_acreedor = Zero
    /\ call.ret.total_haber = None

\* C29: the year of every record extract_data returns is None or lies in
\* [2000, 2100], also for a text whose labelled year is out of that range
\* and that has no other number that looks like a year.
C29_YearRange ==
    (call.op \in {"extract_data", "insert_data"} /\ call.ret # None) =>
        \/ call.ret.year = None
        \/ (YearMin <= call.ret.year.val /\ call.ret.year.val <= YearMax)

\* C30: the three clean_number implementations return the same result,
\* a value or None, for every input string.
C30_NormalizersAgree ==
    call.op = "clean_number_easyocr" =>
        (call.enhanced = call.ret /\ call.easyocr = call.ret)

====
